---- MODULE Spec2Model ----
(***************************************************************************)
(* Model of main/app_main.c: a main task that reads a current measurement  *)
(* from the UART, parses it with sscanf and publishes it, together with    *)
(* two synthetic channels, through the esp-mqtt client, while the client's *)
(* own task delivers session events to mqtt_event_handler.                 *)
(***************************************************************************)
EXTENDS Integers, Sequences, FiniteSets, TLC

(***************************************************************************)
(* Bounds of the model.                                                    *)
(***************************************************************************)
\* Largest value of the wall clock time(NULL) that the model distinguishes.
MaxTime == 1
\* Capacity of the client's outbox of unacknowledged publications.
MaxPending == 2
\* Largest value returned by the scaled-down rand().
RandMax == 2

(***************************************************************************)
(* Characters and C strings.  A TLA+ string cannot hold the byte 0x00, so  *)
(* NUL stands for it in received data.                                     *)
(***************************************************************************)
NUL == "@"

CharAt(s, i) == SubSeq(s, i, i)

IsSpace(c) == c \in {" ", "\t", "\n", "\r"}

IsDigit(c) == c \in {"0", "1", "2", "3", "4", "5", "6", "7", "8", "9"}

DigitVal(c) ==
  CASE c = "0" -> 0 [] c = "1" -> 1 [] c = "2" -> 2 [] c = "3" -> 3
    [] c = "4" -> 4 [] c = "5" -> 5 [] c = "6" -> 6 [] c = "7" -> 7
    [] c = "8" -> 8 [] c = "9" -> 9

\* Index of the first NUL of buf at or after i, or Len(buf) + 1.
FirstNul(buf, i) ==
  LET nuls == { j \in i..Len(buf) : CharAt(buf, j) = NUL }
  IN  IF nuls = {} THEN Len(buf) + 1
      ELSE CHOOSE j \in nuls : \A k \in nuls : j <= k

\* The C string that starts at rx_buf[0]: the bytes before the first NUL.
CStr(buf) == SubSeq(buf, 1, FirstNul(buf, 1) - 1)

(***************************************************************************)
(* IEEE-754 binary32 (float).  A float is [neg, m, k] and stands for       *)
(* (-1)^neg * m / 2^k with 2^23 <= m < 2^24, or m = 0.  The model covers   *)
(* magnitudes in [2^-7, 2^24), for which 0 <= k <= 30.                     *)
(***************************************************************************)
FloatHidden == 8388608
FloatLimit == 16777216
FloatZero == [neg |-> FALSE, m |-> 0, k |-> 0]

RECURSIVE Pow(_, _)
Pow(b, n) == IF n = 0 THEN 1 ELSE b * Pow(b, n - 1)

\* Round q + r/den to the nearest integer, ties to even.
RoundEven(q, r, den) ==
  IF 2 * r > den \/ (2 * r = den /\ q % 2 = 1) THEN q + 1 ELSE q

\* q + r/den is value * 2^k: double until the integer part has 24 bits.
RECURSIVE Normalise(_, _, _, _)
Normalise(q, r, den, k) ==
  IF q >= FloatHidden
    THEN LET m == RoundEven(q, r, den)
         IN  IF m = FloatLimit THEN [m |-> FloatHidden, k |-> k - 1]
                               ELSE [m |-> m, k |-> k]
    ELSE Normalise(2 * q + ((2 * r) \div den), (2 * r) % den, den, k + 1)

\* The float nearest to the decimal (-1)^neg * num / den.
ToFloat(neg, num, den) ==
  IF num = 0 THEN FloatZero
  ELSE LET n == Normalise(num \div den, num % den, den, 0)
       IN  [neg |-> neg, m |-> n.m, k |-> n.k]

\* Variant: the third decimal dropped instead of rounded.
FormatF2_Truncate(f) ==
  LET h == (f.m * 100) \div Pow(2, f.k)
  IN  IF f.neg THEN 0 - h ELSE h

\* printf("%.2f"): the float in hundredths, rounded to nearest, ties to even.
FormatF2(f) ==
  LET p == Pow(2, f.k)
      h == RoundEven((f.m * 100) \div p, (f.m * 100) % p, p)
  IN  IF f.neg THEN 0 - h ELSE h

(***************************************************************************)
(* sscanf(rx_buf, "Current reading: %f A", &I_rms).  A scan state is     *)
(* [st, pos]: st is "ok", "eof" (input failure: the string ended) or       *)
(* "mismatch" (matching failure); pos is the next unread index.            *)
(***************************************************************************)
FormatWord1 == "Current"
FormatWord2 == "reading:"

\* An ordinary character of the format must equal the next input character.
RECURSIVE MatchLiteral(_, _, _, _)
MatchLiteral(s, i, lit, j) ==
  IF j > Len(lit) THEN [st |-> "ok", pos |-> i]
  ELSE IF i > Len(s) THEN [st |-> "eof", pos |-> i]
  ELSE IF CharAt(s, i) = CharAt(lit, j) THEN MatchLiteral(s, i + 1, lit, j + 1)
  ELSE [st |-> "mismatch", pos |-> i]

\* White space in the format, and before %f, skips any white space (or none).
RECURSIVE SkipSpace(_, _)
SkipSpace(s, i) ==
  IF i <= Len(s) /\ IsSpace(CharAt(s, i)) THEN SkipSpace(s, i + 1) ELSE i

\* The digits of s from i on: [pos, num, cnt], num their decimal value.
RECURSIVE ScanDigits(_, _, _, _)
ScanDigits(s, i, num, cnt) ==
  IF i <= Len(s) /\ IsDigit(CharAt(s, i))
    THEN ScanDigits(s, i + 1, 10 * num + DigitVal(CharAt(s, i)), cnt + 1)
    ELSE [pos |-> i, num |-> num, cnt |-> cnt]

\* %f: optional sign, digits, optional point and digits; at least one digit.
\* (Exponents, "inf", "nan" and hexadecimal forms are outside the alphabet of
\* the modelled frames.)
ScanFloat(s, i0) ==
  LET i    == SkipSpace(s, i0)
      sign == i <= Len(s) /\ CharAt(s, i) \in {"-", "+"}
      neg  == sign /\ CharAt(s, i) = "-"
      ip   == ScanDigits(s, IF sign THEN i + 1 ELSE i, 0, 0)
      dot  == ip.pos <= Len(s) /\ CharAt(s, ip.pos) = "."
      fp   == IF dot THEN ScanDigits(s, ip.pos + 1, ip.num, 0)
                     ELSE [pos |-> ip.pos, num |-> ip.num, cnt |-> 0]
  IN  IF i > Len(s) THEN [st |-> "eof", pos |-> i, val |-> FloatZero]
      ELSE IF ip.cnt + fp.cnt = 0
        THEN [st |-> "mismatch", pos |-> i, val |-> FloatZero]
      ELSE [st |-> "ok", pos |-> fp.pos,
            val |-> ToFloat(neg, fp.num, Pow(10, fp.cnt))]

\* The whole call: [ret, val].  ret is the number of conversions stored (1
\* as soon as %f converts: the directives " A" that follow it store nothing
\* and cannot change the count), 0 on a matching failure before it and EOF
\* when the string ends before it.
EOF_RET == -1
sscanf(s) ==
  LET a == MatchLiteral(s, 1, FormatWord1, 1)
      b == MatchLiteral(s, SkipSpace(s, a.pos), FormatWord2, 1)
      f == ScanFloat(s, SkipSpace(s, b.pos))
      Fail(x) == [ret |-> IF x.st = "eof" THEN EOF_RET ELSE 0, val |-> FloatZero]
  IN  IF a.st # "ok" THEN Fail(a)
      ELSE IF b.st # "ok" THEN Fail(b)
      ELSE IF f.st # "ok" THEN Fail(f)
      ELSE [ret |-> 1, val |-> f.val]

(***************************************************************************)
(* Serial input: what a single uart_read_bytes call can deliver.           *)
(***************************************************************************)
\* Measurements the sensor sends: the text and its value in thousandths.
Readings ==
  { [text |-> "12.34", milli |-> 12340],
    [text |-> "1.15",  milli |-> 1150],
    [text |-> "2.675", milli |-> 2675] }

WellFormedFrame(t) == "Current reading: " \o t \o " A"

WellFormedFrames == { WellFormedFrame(r.text) : r \in Readings }

\* Wrong prefix.
WrongPrefixFrames == { "garbage" }
\* Right prefix, but no number where the value should be.
NonNumericFrames == { "Current reading: abc A" }
\* Bytes whose first one is 0x00: the C string in the buffer is empty.
EmptyFrames == { NUL \o "1.15 A" }
\* A frame cut short by the end of the read, and the rest of such a frame.
TruncatedFrames == { "Current reading: 12.3" }
RemainderFrames == { "4 A" }

Frames ==
  WellFormedFrames \cup WrongPrefixFrames \cup NonNumericFrames
    \cup EmptyFrames \cup TruncatedFrames \cup RemainderFrames

\* #define UART_BUF_SIZE, the size of rx_buf.
UART_BUF_SIZE == 1024

\* Variant: the read asks for as many bytes as the buffer has.
ReadLength_WholeBuffer == UART_BUF_SIZE

\* The length uart_read_bytes is asked for: sizeof(rx_buf) - 1.
ReadLength == UART_BUF_SIZE - 1

\* 2^k - 1 bytes of line noise.
RECURSIVE Fill(_)
Fill(k) == IF k = 0 THEN "" ELSE Fill(k - 1) \o Fill(k - 1) \o "x"

\* More bytes waiting in the driver than rx_buf has room for.
BurstFrames == { Fill(11) }

\* The bytes that can be waiting when uart_read_bytes is called.
SerialInputs == Frames \cup BurstFrames

\* uart_read_bytes stores at most the length it was asked for.
Delivered(f) ==
  SubSeq(f, 1, IF Len(f) < ReadLength THEN Len(f) ELSE ReadLength)

\* Every content rx_buf can have, and the result of sscanf on the C string
\* in each (computed once).
Buffers == { "" } \cup { Delivered(f) \o NUL : f \in SerialInputs }

ScanOf == [ b \in Buffers |-> sscanf(CStr(b)) ]

(***************************************************************************)
(* Synthetic channels.                                                     *)
(***************************************************************************)
\* rand(): a congruential stream of full period, scaled down to 0..RandMax:
\* each call advances the hidden state and returns it.
RandStep(x) == (x + 1) % (RandMax + 1)

\* base + (rand() / RAND_MAX) * span, in thousandths, as a float.
Synthetic(base, span, r) == ToFloat(FALSE, base + (span * r) \div RandMax, 1000)

\* 1.0f + (rand() / RAND_MAX) * 0.5f and 2.6f + (rand() / RAND_MAX) * 0.3f,
\* for every value of rand() (computed once).
SalaOf == [ r \in 0..RandMax |-> Synthetic(1000, 500, r) ]

GarageOf == [ r \in 0..RandMax |-> Synthetic(2600, 300, r) ]

(***************************************************************************)
(* Values of the locals.                                                   *)
(***************************************************************************)
\* An indeterminate float, and the marker of "sscanf has not run this cycle".
Uninit == [neg |-> FALSE, m |-> 0 - 1, k |-> 0]
NoRet == EOF_RET - 1

\* Every float the program can hold, and its "%.2f" rendering (computed once).
Floats ==
  { ScanOf[b].val : b \in Buffers }
    \cup { SalaOf[r] : r \in 0..RandMax } \cup { GarageOf[r] : r \in 0..RandMax }
    \cup { Uninit }

PrintedOf == [ f \in Floats |-> FormatF2(f) ]

(***************************************************************************)
(* State.                                                                  *)
(***************************************************************************)
VARIABLES
  pc,          \* position of the main task in app_main
  g_client,    \* the global client handle: "NULL" or "client"
  session,     \* connection state kept inside the esp-mqtt client
  pending,     \* msg_ids in the client's outbox, awaiting acknowledgment
  len,         \* result of the cycle's uart_read_bytes
  rx_buf,      \* rx_buf[0 .. len] after the terminator is written
  sscanf_ret,  \* result of the cycle's sscanf, NoRet before it has run
  I_rms,       \* the float sscanf stored, Uninit otherwise
  sala_val,    \* the cycle's synthetic values
  garage_val,
  rand_next,   \* state of the C library's rand() stream
  now,         \* time(NULL)
  attempts,    \* this cycle's calls of publish_corriente: [fase, I_rms]
  calls,       \* this cycle's calls of esp_mqtt_client_publish
  msg_id,      \* what the cycle's last esp_mqtt_client_publish returned
  prev_cycle   \* the Sala and Garage values the previous cycle published

vars == << pc, g_client, session, pending, len, rx_buf, sscanf_ret, I_rms,
           sala_val, garage_val, rand_next, now, attempts, calls, msg_id,
           prev_cycle >>

mainVars == << pc, len, rx_buf, sscanf_ret, I_rms, sala_val, garage_val,
               rand_next, attempts, msg_id, prev_cycle >>

\* msg_id before any call of the cycle has returned.
NoId == 0 - 2

Channels == { "Cocina", "Sala", "Garage" }

LoopPcs == { "read", "parse", "pub_cocina", "synth", "pub_sala",
             "pub_garage", "sleep" }

Init ==
  /\ pc = "boot"
  /\ g_client = "NULL"
  /\ session = "None"
  /\ pending = {}
  /\ len = 0
  /\ rx_buf = ""
  /\ sscanf_ret = NoRet
  /\ I_rms = Uninit
  /\ sala_val = Uninit
  /\ garage_val = Uninit
  /\ rand_next = 0
  /\ now = 0
  /\ attempts = << >>
  /\ calls = << >>
  /\ msg_id = NoId
  /\ prev_cycle = [sala |-> Uninit, garage |-> Uninit]

(***************************************************************************)
(* publish_corriente and the client call it makes.                         *)
(***************************************************************************)
TopicSize == 64
\* Variant: fire-and-forget delivery.
QOS_AtMostOnce == 1 - 1
QOS == 1
RETAIN == 0

Min(a, b) == IF a < b THEN a ELSE b

\* Variant: a topic buffer a quarter of the size.
Topic_ShortBuffer(fase) ==
  LET t == "casa/" \o fase \o "/corriente"
  IN  SubSeq(t, 1, Min(Len(t), (TopicSize \div 4) - 1))

\* snprintf(topic, sizeof(topic), "casa/%s/corriente", fase)
Topic(fase) ==
  LET t == "casa/" \o fase \o "/corriente"
  IN  SubSeq(t, 1, Min(Len(t), TopicSize - 1))

\* snprintf(payload, ..., "{\"ts\":%lld,\"I\":%.2f}", time(NULL), I_rms):
\* the two fields of the JSON object, I in hundredths.
Payload(t, I) == [ts |-> t, I |-> PrintedOf[I]]

\* The smallest msg_id not in the outbox.
FreshId == CHOOSE i \in 1..(MaxPending + 1) :
             i \notin pending /\ \A j \in 1..(i - 1) : j \in pending

\* Variant: the call returns only once the earlier publications have been
\* acknowledged.
esp_mqtt_client_publish_WaitAck(topic, payload, qos, retain) ==
  LET stored == qos > 0 /\ Cardinality(pending) < MaxPending
      id     == IF stored THEN FreshId
                ELSE IF qos = 0 /\ session = "Connected" THEN 0
                ELSE 0 - 1
  IN  /\ pending = {}
      /\ pending' = IF stored THEN pending \cup {id} ELSE pending
      /\ msg_id' = id
      /\ calls' = Append(calls, [topic |-> topic, payload |-> payload,
                                 qos |-> qos, retain |-> retain])

\* esp_mqtt_client_publish(g_client, topic, payload, 0, qos, retain) as the
\* esp-mqtt client documents it: a message with qos > 0 is stored in the
\* outbox and its msg_id returned whether or not the client is connected; a
\* qos 0 message is not stored, and fails (-1) when disconnected; -1 is also
\* returned when the outbox cannot take the message.
esp_mqtt_client_publish(topic, payload, qos, retain) ==
  LET stored == qos > 0 /\ Cardinality(pending) < MaxPending
      id     == IF stored THEN FreshId
                ELSE IF qos = 0 /\ session = "Connected" THEN 0
                ELSE 0 - 1
  IN  /\ pending' = IF stored THEN pending \cup {id} ELSE pending
      /\ msg_id' = id
      /\ calls' = Append(calls, [topic |-> topic, payload |-> payload,
                                 qos |-> qos, retain |-> retain])

\* Variant: the handle is passed on without the test of line 52.
publish_corriente_NoGuard(fase, I) ==
  /\ attempts' = Append(attempts, [fase |-> fase, I_rms |-> I])
  /\ esp_mqtt_client_publish(Topic(fase), Payload(now, I), QOS, RETAIN)

\* void publish_corriente(const char *fase, float I_rms)
publish_corriente(fase, I) ==
  /\ attempts' = Append(attempts, [fase |-> fase, I_rms |-> I])
  /\ IF g_client = "NULL"
       THEN UNCHANGED << pending, calls, msg_id >>
       ELSE esp_mqtt_client_publish(Topic(fase), Payload(now, I), QOS, RETAIN)

(***************************************************************************)
(* app_main: start-up.                                                     *)
(***************************************************************************)
\* Lines 146-175: every ESP_ERROR_CHECK passes; srand seeds rand() from the
\* timer.
Boot ==
  /\ pc = "boot"
  /\ \E seed \in 0..RandMax : rand_next' = seed
  /\ pc' = "mqtt_start"
  /\ UNCHANGED << g_client, session, pending, len, rx_buf, sscanf_ret, I_rms,
                  sala_val, garage_val, now, attempts, calls, msg_id,
                  prev_cycle >>

\* Lines 156-172: an ESP_ERROR_CHECK fails and aborts the program.
BootAbort ==
  /\ pc = "boot"
  /\ pc' = "aborted"
  /\ UNCHANGED << g_client, session, pending, len, rx_buf, sscanf_ret, I_rms,
                  sala_val, garage_val, rand_next, now, attempts, calls, msg_id,
                  prev_cycle >>

\* mqtt_app_start: esp_mqtt_client_init returns a handle, or NULL when the
\* configuration is rejected (malformed URI) or memory is short.  With NULL,
\* esp_mqtt_client_register_event and esp_mqtt_client_start return an error
\* that is not looked at.  app_main then enters the loop.
mqtt_app_start ==
  /\ pc = "mqtt_start"
  /\ \E h \in { "NULL", "client" } :
       /\ g_client' = h
       /\ session' = IF h = "NULL" THEN "None" ELSE "Connecting"
  /\ pc' = "read"
  /\ UNCHANGED << pending, len, rx_buf, sscanf_ret, I_rms, sala_val,
                  garage_val, rand_next, now, attempts, calls, msg_id,
                  prev_cycle >>

(***************************************************************************)
(* app_main: the loop.                                                     *)
(***************************************************************************)
\* What uart_read_bytes can return: -1 (error), 0 (timeout) or the length
\* of the bytes it stored.
ReadResults == { [len |-> 0 - 1, data |-> ""], [len |-> 0, data |-> ""] }
                 \cup { [len |-> Len(Delivered(f)), data |-> Delivered(f)] :
                          f \in SerialInputs }

\* Variant: a read without bytes ends the cycle.
AfterRead_SkipCycle(n) == IF n > 0 THEN "parse" ELSE "sleep"

\* Variant: sscanf is run whether or not the read brought bytes.
AfterRead_ParseAnyway(n) == "parse"

\* Variant: a read without bytes is tried again at once.
AfterRead_Retry(n) == IF n > 0 THEN "parse" ELSE "read"

\* Lines 184 and 194-196: where the loop goes with the read's result.
AfterRead(n) == IF n > 0 THEN "parse" ELSE "synth"

\* Lines 183-185: the bounded read; with len > 0 the terminator
\* is written at rx_buf[len].
UartRead ==
  /\ pc = "read"
  /\ \E r \in ReadResults :
       /\ len' = r.len
       /\ rx_buf' = IF r.len > 0 THEN r.data \o NUL ELSE rx_buf
       /\ pc' = AfterRead(r.len)
  /\ UNCHANGED << g_client, session, pending, sscanf_ret, I_rms, sala_val,
                  garage_val, rand_next, now, attempts, calls, msg_id,
                  prev_cycle >>

\* Variant: the result of sscanf tested for truth instead of for 1.
ParseOk_Truthy(ret) == ret # 0

\* The test of line 188.
ParseOk(ret) == ret = 1

\* Variant: a parse failure ends the program.
AfterParse_Abort(ret) == IF ParseOk(ret) THEN "pub_cocina" ELSE "aborted"

\* Lines 188-193: publish the reading, or warn and go on.
AfterParse(ret) == IF ParseOk(ret) THEN "pub_cocina" ELSE "synth"

\* Lines 186-193: sscanf on the terminated buffer; I_rms is stored only when
\* the conversion succeeds.
Parse ==
  /\ pc = "parse"
  /\ sscanf_ret' = ScanOf[rx_buf].ret
  /\ I_rms' = IF sscanf_ret' = 1 THEN ScanOf[rx_buf].val ELSE I_rms
  /\ pc' = AfterParse(sscanf_ret')
  /\ UNCHANGED << g_client, session, pending, len, rx_buf, sala_val,
                  garage_val, rand_next, now, attempts, calls, msg_id,
                  prev_cycle >>

\* Line 189.
PubCocina ==
  /\ pc = "pub_cocina"
  /\ publish_corriente("Cocina", I_rms)
  /\ pc' = "synth"
  /\ UNCHANGED << g_client, session, len, rx_buf, sscanf_ret, I_rms,
                  sala_val, garage_val, rand_next, now,
                  prev_cycle >>

\* Lines 198-199: two successive rand() values give the synthetic readings.
Synth ==
  /\ pc = "synth"
  /\ sala_val' = SalaOf[RandStep(rand_next)]
  /\ garage_val' = GarageOf[RandStep(RandStep(rand_next))]
  /\ rand_next' = RandStep(RandStep(rand_next))
  /\ pc' = "pub_sala"
  /\ UNCHANGED << g_client, session, pending, len, rx_buf, sscanf_ret, I_rms,
                  now, attempts, calls, msg_id,
                  prev_cycle >>

\* Variant: the Garage value is published in Sala's place.
PubSala_GarageFirst ==
  /\ pc = "pub_sala"
  /\ publish_corriente("Garage", garage_val)
  /\ pc' = "pub_garage"
  /\ UNCHANGED << g_client, session, len, rx_buf, sscanf_ret, I_rms,
                  sala_val, garage_val, rand_next, now,
                  prev_cycle >>

\* Line 200.
PubSala ==
  /\ pc = "pub_sala"
  /\ publish_corriente("Sala", sala_val)
  /\ pc' = "pub_garage"
  /\ UNCHANGED << g_client, session, len, rx_buf, sscanf_ret, I_rms,
                  sala_val, garage_val, rand_next, now,
                  prev_cycle >>

\* Line 202.
PubGarage ==
  /\ pc = "pub_garage"
  /\ publish_corriente("Garage", garage_val)
  /\ pc' = "sleep"
  /\ UNCHANGED << g_client, session, len, rx_buf, sscanf_ret, I_rms,
                  sala_val, garage_val, rand_next, now,
                  prev_cycle >>

\* Lines 205-206: vTaskDelay returns and the loop body ends.  Its locals
\* (len, I_rms, sala_val, garage_val) end their lifetime and are indeterminate
\* in the next iteration; the cycle's records start over, the synthetic values
\* it published being remembered as the previous cycle's.  rx_buf, declared
\* outside the loop, keeps its bytes.
Sleep ==
  /\ pc = "sleep"
  /\ pc' = "read"
  /\ len' = 0
  /\ sscanf_ret' = NoRet
  /\ I_rms' = Uninit
  /\ sala_val' = Uninit
  /\ garage_val' = Uninit
  /\ attempts' = << >>
  /\ calls' = << >>
  /\ msg_id' = NoId
  /\ prev_cycle' = [sala |-> sala_val, garage |-> garage_val]
  /\ UNCHANGED << g_client, session, pending, rx_buf, rand_next, now >>

\* One step of the main task inside the loop.
MainStep ==
  UartRead \/ Parse \/ PubCocina \/ Synth \/ PubSala \/ PubGarage \/ Sleep

(***************************************************************************)
(* The client's task: session transitions, each delivered to               *)
(* mqtt_event_handler, which writes a log line and nothing else.           *)
(***************************************************************************)
EventIds ==
  { "MQTT_EVENT_CONNECTED", "MQTT_EVENT_DISCONNECTED", "MQTT_EVENT_PUBLISHED",
    "MQTT_EVENT_DATA", "MQTT_EVENT_ERROR", "MQTT_EVENT_BEFORE_CONNECT" }

\* Variant: the handler announces the connection with a publish of its own.
mqtt_event_handler_Announce(event_id) ==
  /\ event_id \in EventIds
  /\ calls' = IF event_id = "MQTT_EVENT_CONNECTED"
                THEN Append(calls, [topic |-> "casa/status", payload |-> "online",
                                    qos |-> QOS, retain |-> RETAIN])
                ELSE calls
  /\ UNCHANGED << g_client, mainVars >>

\* Variant: the handler clears the handle when the session is lost.
mqtt_event_handler_ResetHandle(event_id) ==
  /\ event_id \in EventIds
  /\ g_client' = IF event_id = "MQTT_EVENT_DISCONNECTED" THEN "NULL"
                 ELSE g_client
  /\ UNCHANGED << mainVars, calls >>

\* Every branch of the switch writes one log line and returns: the handler
\* changes nothing the program keeps.
mqtt_event_handler(event_id) ==
  /\ event_id \in EventIds
  /\ UNCHANGED << g_client, mainVars, calls >>

EvConnected ==
  /\ session = "Connecting"
  /\ session' = "Connected"
  /\ mqtt_event_handler("MQTT_EVENT_CONNECTED")
  /\ UNCHANGED << pending, now >>

EvDisconnected ==
  /\ session \in { "Connecting", "Connected", "Error" }
  /\ session' = "Disconnected"
  /\ mqtt_event_handler("MQTT_EVENT_DISCONNECTED")
  /\ UNCHANGED << pending, now >>

EvError ==
  /\ session \in { "Connecting", "Connected" }
  /\ session' = "Error"
  /\ mqtt_event_handler("MQTT_EVENT_ERROR")
  /\ UNCHANGED << pending, now >>

\* The client retries on its own; the attempt is announced with
\* MQTT_EVENT_BEFORE_CONNECT, which the handler's default branch takes.
EvBeforeConnect ==
  /\ session \in { "Disconnected", "Error" }
  /\ session' = "Connecting"
  /\ mqtt_event_handler("MQTT_EVENT_BEFORE_CONNECT")
  /\ UNCHANGED << pending, now >>

\* The broker acknowledges a stored publication.
EvPublished ==
  /\ session = "Connected"
  /\ \E id \in pending : pending' = pending \ {id}
  /\ mqtt_event_handler("MQTT_EVENT_PUBLISHED")
  /\ UNCHANGED << session, now >>

EvData ==
  /\ session = "Connected"
  /\ mqtt_event_handler("MQTT_EVENT_DATA")
  /\ UNCHANGED << session, pending, now >>

\* The wall clock advances.
Tick ==
  /\ now < MaxTime
  /\ now' = now + 1
  /\ UNCHANGED << g_client, session, pending, mainVars, calls >>

SessionEvent ==
  EvConnected \/ EvDisconnected \/ EvError \/ EvBeforeConnect \/ EvData

Next ==
  \/ Boot
  \/ BootAbort
  \/ mqtt_app_start
  \/ MainStep
  \/ SessionEvent
  \/ EvPublished
  \/ Tick

Spec == Init /\ [][Next]_vars

(***************************************************************************)
(* Scheduling.  The main task is always runnable or in a bounded wait (the *)
(* one-second read, the five-second delay), so its next step is eventually *)
(* taken.  Nothing obliges the network to deliver any event.               *)
(***************************************************************************)
FairSpec == Spec /\ WF_vars(MainStep)

\* The same program with a broker that never acknowledges a publication.
NextNoAck ==
  \/ Boot
  \/ BootAbort
  \/ mqtt_app_start
  \/ MainStep
  \/ SessionEvent
  \/ Tick

NoAckSpec == Init /\ [][NextNoAck]_vars /\ WF_vars(MainStep)


(***************************************************************************)
(* Properties.                                                             *)
(***************************************************************************)
Fases == [ i \in DOMAIN attempts |-> attempts[i].fase ]

Topics == [ i \in DOMAIN calls |-> calls[i].topic ]

Range(f) == { f[i] : i \in DOMAIN f }

CocinaTopic == "casa/Cocina/corriente"
SalaTopic == "casa/Sala/corriente"
GarageTopic == "casa/Garage/corriente"

\* The positions of the loop after the read and the parse of the cycle.
AfterParsePcs == { "pub_cocina", "synth", "pub_sala", "pub_garage", "sleep" }
\* The positions of the loop after the Cocina publish, if any, of the cycle.
AfterCocinaPcs == { "synth", "pub_sala", "pub_garage", "sleep" }

\* A step in which esp_mqtt_client_publish is called.
PublishCallStep == Len(calls') = Len(calls) + 1
\* A step in which publish_corriente is called.
PublishAttemptStep == Len(attempts') = Len(attempts) + 1

\* The synthetic channels have been handed to publish_corriente, in a cycle
\* without a Cocina publish.
OnlySyntheticPublished ==
  /\ Fases = << "Sala", "Garage" >>
  /\ g_client # "NULL" => Topics = << SalaTopic, GarageTopic >>

\* C1: esp_mqtt_client_publish is called only while the session is
\* Connected.
C1_PublishOnlyWhileConnected ==
  [][PublishCallStep => session = "Connected"]_vars

\* C2: a publish attempted while the session is not Connected returns no
\* tracking identifier and leaves the set of pending publications as it was.
C2_NotConnectedAttemptDropped ==
  [][(PublishAttemptStep /\ session # "Connected")
       => (msg_id' < 0 /\ pending' \subseteq pending)]_vars

\* C3: in a cycle whose read returned no bytes (len <= 0) sscanf is not run,
\* nothing is published for Cocina, and by the time the cycle sleeps Sala and
\* Garage have both been handed to publish_corriente (and, with a client, to
\* esp_mqtt_client_publish).
C3_TimeoutStillPublishesSynthetic ==
  (pc \in AfterCocinaPcs /\ len <= 0) =>
    /\ sscanf_ret = NoRet
    /\ \A i \in DOMAIN attempts : attempts[i].fase # "Cocina"
    /\ \A i \in DOMAIN calls : calls[i].topic # CocinaTopic
    /\ pc = "sleep" => OnlySyntheticPublished

C3_Witness ==
  /\ pc = "sleep"
  /\ len = 0
  /\ g_client = "client"
  /\ Topics = << SalaTopic, GarageTopic >>

\* The malformed inputs: wrong prefix, no number, empty string.
MalformedFrames == WrongPrefixFrames \cup NonNumericFrames \cup EmptyFrames

MalformedRead == len > 0 /\ \E f \in MalformedFrames : rx_buf = f \o NUL

Distance(printed, milli) ==
  IF 10 * printed >= milli THEN 10 * printed - milli ELSE milli - 10 * printed

WellFormedRead(r) == len > 0 /\ rx_buf = WellFormedFrame(r.text) \o NUL

CocinaCalls == { i \in DOMAIN calls : calls[i].topic = CocinaTopic }

\* State part of C5: in a cycle whose read delivered "Current reading: <v> A", Cocina is
\* handed to publish_corriente exactly once, as the first publish of the
\* cycle; with a client, exactly one call is made on casa/Cocina/corriente,
\* its I is v at two decimals (within half a hundredth of v, and v itself when
\* v has two decimals), and its ts is the clock at the call.
C5_Inv ==
  \A r \in Readings :
    (pc \in AfterCocinaPcs /\ WellFormedRead(r)) =>
      /\ { i \in DOMAIN attempts : attempts[i].fase = "Cocina" } = { 1 }
      /\ g_client # "NULL" =>
           /\ CocinaCalls = { 1 }
           /\ Distance(calls[1].payload.I, r.milli) <= 5
           /\ r.milli % 10 = 0 => 10 * calls[1].payload.I = r.milli
           /\ r.text = "12.34" => calls[1].payload.I = 1234

\* C5: the state part above in every state, and on the step that calls
\* esp_mqtt_client_publish for Cocina the ts of the call's payload is the clock.
C5_WellFormedPublishedOnce ==
  /\ []C5_Inv
  /\ [][(PublishCallStep /\ pc = "pub_cocina")
          => calls'[Len(calls')].payload.ts = now]_vars

C5_Witness ==
  /\ pc = "synth"
  /\ len > 0
  /\ rx_buf = "Current reading: 12.34 A" \o NUL
  /\ Topics = << CocinaTopic >>
  /\ calls[1].payload.I = 1234
  /\ calls[1].payload.ts = MaxTime

\* C6: every call of esp_mqtt_client_publish asks for QoS 1 with retain
\* unset.
C6_QosOneNoRetain ==
  \A i \in DOMAIN calls : calls[i].qos = 1 /\ calls[i].retain = 0

C6_Witness ==
  /\ Len(calls) = 3
  /\ \A i \in DOMAIN calls : calls[i].qos = 1 /\ calls[i].retain = 0

\* C7: every call of esp_mqtt_client_publish is on casa/<channel>/corriente
\* for a channel of the fixed set, and publish_corriente is only ever given a
\* channel of that set.
C7_TopicOfFixedChannelSet ==
  /\ \A i \in DOMAIN calls :
       calls[i].topic \in { CocinaTopic, SalaTopic, GarageTopic }
  /\ \A i \in DOMAIN attempts : attempts[i].fase \in Channels

C7_Witness == Topics = << CocinaTopic, SalaTopic, GarageTopic >>

\* C8: when the client initialisation fails (g_client stays NULL) the main
\* loop is never entered.
C8_InitFailureIsFatal ==
  (pc \in LoopPcs) => g_client # "NULL"

\* C9: once the loop is entered, whatever the parse outcome, the results of the
\* publish calls and the session events, the main task always reaches the
\* inter-cycle sleep again and always starts another cycle after it.
C9_LoopCyclesForever ==
  /\ [](pc \in LoopPcs => <>(pc = "sleep"))
  /\ [](pc = "sleep" => <>(pc = "read"))

C9_Witness ==
  /\ pc = "sleep"
  /\ sscanf_ret = 0
  /\ session = "Error"
  /\ msg_id = 0 - 1

\* C10: with publications that are never acknowledged, the loop still goes
\* from each publish to the sleep and from the sleep to the next cycle's
\* publishes.
C10_NeverWaitsForAck ==
  /\ []((pending # {} /\ pc \in { "pub_cocina", "pub_sala", "pub_garage" })
          => <>(pc = "sleep"))
  /\ []((pending # {} /\ pc = "sleep") => <>(pc = "pub_garage"))

C10_Witness ==
  /\ pc = "pub_sala"
  /\ Cardinality(pending) = MaxPending
  /\ session = "Connected"

\* The positions at which the main task reads g_client (the test of line 52
\* and the argument of line 68).
HandleReadPcs == { "pub_cocina", "pub_sala", "pub_garage" }

\* C11: the handle is written in one step only, by the main task in
\* mqtt_app_start, while no client task exists yet (session None); from then
\* on, and so at every read of the handle by the main loop, no step of any
\* task writes it.  The connection status lives in the client alone: it is
\* never written by a step of the main loop, and a publish step leaves it as
\* the last transition set it.
C11_NoRacyAccess ==
  /\ [][g_client' # g_client => (pc = "mqtt_start" /\ session = "None")]_vars
  /\ [][(pc \in LoopPcs) => (g_client' = g_client)]_vars
  /\ [][(pc \in LoopPcs /\ pc' # pc) => (session' = session)]_vars

C11_Witness ==
  /\ pc \in HandleReadPcs
  /\ g_client = "client"
  /\ session = "Disconnected"
  /\ Len(calls) > 0

\* The positions of the loop after the synthetic values have been drawn.
AfterSynthPcs == { "pub_sala", "pub_garage", "sleep" }

\* C12: the program takes no generator input, so the synthetic values depend
\* on nothing a cycle is given: every cycle publishes for Sala and Garage the
\* values the previous cycle published.
C12_SyntheticValuesRepeat ==
  (pc \in AfterSynthPcs /\ prev_cycle.sala # Uninit) =>
    (sala_val = prev_cycle.sala /\ garage_val = prev_cycle.garage)

IsPrefix(s, t) == Len(s) <= Len(t) /\ \A i \in DOMAIN s : s[i] = t[i]

\* C13: the cycle's calls of publish_corriente are, in order, a beginning of
\* Cocina, Sala, Garage when sscanf returned 1 in this cycle and a beginning
\* of Sala, Garage otherwise; Sala is there once the loop is past line 200 and
\* Garage once it is past line 202; with a client the calls of
\* esp_mqtt_client_publish are on the topics of these channels in this order.
C13_FixedChannelOrder ==
  /\ IF ParseOk(sscanf_ret)
       THEN IsPrefix(Fases, << "Cocina", "Sala", "Garage" >>)
       ELSE IsPrefix(Fases, << "Sala", "Garage" >>)
  /\ pc \in AfterCocinaPcs => (ParseOk(sscanf_ret) <=> "Cocina" \in Range(Fases))
  /\ pc \in { "pub_garage", "sleep" } => "Sala" \in Range(Fases)
  /\ pc = "sleep" => Fases[Len(Fases)] = "Garage"
  /\ g_client # "NULL" => Topics = [ i \in DOMAIN Fases |-> Topic(Fases[i]) ]

C13_Witness ==
  /\ pc = "sleep"
  /\ ParseOk(sscanf_ret)
  /\ Fases = << "Cocina", "Sala", "Garage" >>
  /\ session = "Connecting"

\* The order of the statements of the loop body: the read, the parse of the
\* bytes if any came, the Cocina publish if the parse succeeded, the synthetic
\* values and their publishes, the delay, and the read again.
CycleOrder ==
  { << "read", "parse" >>, << "read", "synth" >>,
    << "parse", "pub_cocina" >>, << "parse", "synth" >>,
    << "pub_cocina", "synth" >>, << "synth", "pub_sala" >>,
    << "pub_sala", "pub_garage" >>, << "pub_garage", "sleep" >>,
    << "sleep", "read" >> }

\* The phases of a cycle: Idle in the delay, Reading from the call of
\* uart_read_bytes to the end of the parse, Publishing from there to the delay.
Phase(p) ==
  IF p = "sleep" THEN "Idle"
  ELSE IF p \in { "read", "parse" } THEN "Reading"
  ELSE IF p \in { "pub_cocina", "synth", "pub_sala", "pub_garage" }
    THEN "Publishing"
  ELSE "Startup"

PhaseOrder ==
  { << "Idle", "Reading" >>, << "Reading", "Publishing" >>,
    << "Publishing", "Idle" >> }

\* C14: inside the loop every step of the main task follows the order of
\* the loop body, so the phases go Idle, Reading, Publishing, Idle; the
\* result of the read is set by one step per cycle, taken at the read, and
\* the loop is at the read again only after the delay; sscanf runs only
\* between the read and the publishes; publish_corriente is called only in
\* the publishing positions, and no call of the cycle exists while the loop
\* is still at its read or its parse.
C14_CycleStepOrder ==
  /\ [][(pc \in LoopPcs /\ mainVars' # mainVars) =>
         /\ << pc, pc' >> \in CycleOrder
         /\ Phase(pc') = Phase(pc) \/ << Phase(pc), Phase(pc') >> \in PhaseOrder]_vars
  /\ [][(len' # len) => (pc \in { "read", "sleep" })]_vars
  /\ [][(pc' = "read" /\ pc' # pc) => (pc \in { "sleep", "mqtt_start" })]_vars
  /\ [][(sscanf_ret' # sscanf_ret) => (pc \in { "parse", "sleep" })]_vars
  /\ [][PublishAttemptStep => (pc \in HandleReadPcs)]_vars
  /\ [](pc \in { "read", "parse" } => attempts = << >>)

C14_Witness ==
  /\ pc = "sleep"
  /\ ParseOk(sscanf_ret)
  /\ Len(attempts) = Cardinality(Channels)
  /\ prev_cycle.sala # Uninit

AttemptsFor(c) == { i \in DOMAIN attempts : attempts[i].fase = c }

\* C15: in a cycle no channel is handed to publish_corriente twice; a Cocina
\* call exists only in a cycle whose own read brought bytes that sscanf
\* converted, and its value is the one converted from these bytes; so a cycle
\* whose read timed out or whose bytes did not parse has no Cocina call,
\* whatever an earlier cycle left in rx_buf; the Sala and Garage calls carry
\* the values drawn in this cycle.
C15_ReadingConsumedOnce ==
  /\ \A c \in Channels : Cardinality(AttemptsFor(c)) <= 1
  /\ \A i \in AttemptsFor("Cocina") :
       /\ len > 0
       /\ ParseOk(sscanf_ret)
       /\ attempts[i].I_rms = ScanOf[rx_buf].val
  /\ pc \in AfterCocinaPcs =>
       Cardinality(AttemptsFor("Cocina")) =
         IF len > 0 /\ ParseOk(sscanf_ret) THEN 1 ELSE 0
  /\ \A i \in AttemptsFor("Sala") : attempts[i].I_rms = sala_val
  /\ \A i \in AttemptsFor("Garage") : attempts[i].I_rms = garage_val

\* A cycle whose read timed out while rx_buf still holds the frame of an
\* earlier cycle.
C15_Witness ==
  /\ pc = "sleep"
  /\ len = 0
  /\ rx_buf \in { f \o NUL : f \in WellFormedFrames }
  /\ Fases = << "Sala", "Garage" >>

TruncatedRead == len > 0 /\ \E f \in TruncatedFrames : rx_buf = f \o NUL

\* C16: in a cycle whose read delivered a frame cut short inside its number,
\* without the trailing " A", sscanf does not return 1 and nothing is handed
\* to publish_corriente for Cocina.
C16_TruncatedFrameNotPublished ==
  (pc \in AfterParsePcs /\ TruncatedRead) =>
    /\ ~ParseOk(sscanf_ret)
    /\ AttemptsFor("Cocina") = {}

\* The part of C17 about the handle's single assignment: mqtt_app_start runs
\* once, before the first cycle, and is the only step that writes g_client,
\* which it finds NULL; a client once created is never replaced or reset, and
\* a call of publish_corriente leaves both the handle and the connection
\* state as they were.
HandleWrittenOnce ==
  /\ [][(g_client' # g_client) => (pc = "mqtt_start" /\ g_client = "NULL")]_vars
  /\ [][(pc' = "mqtt_start") => (pc \in { "boot", "mqtt_start" })]_vars
  /\ [][(pc = "mqtt_start" /\ pc' # pc) => (pc' = "read")]_vars
  /\ [][(g_client = "client") => (g_client' = "client")]_vars
  /\ [][PublishAttemptStep => (g_client' = g_client /\ session' = session)]_vars
  /\ [](pc \in { "boot", "mqtt_start" } => (g_client = "NULL" /\ session = "None"))

\* C17: the handle is assigned once as above, and from the first cycle on
\* exactly one session exists: g_client holds the client that mqtt_app_start
\* created and started.
C17_SingleSession ==
  /\ HandleWrittenOnce
  /\ [](pc \in LoopPcs => (g_client = "client" /\ session # "None"))

\* A step of the client's task that delivers an event: the session changes
\* state (after its creation), or a publication leaves the outbox.
EventStep ==
  \/ session # "None" /\ session' # session
  \/ pending' # pending /\ pending' \subseteq pending

\* C18: a step that delivers a session event, whichever it is, leaves
\* g_client and every variable of the main loop as they were, calls
\* esp_mqtt_client_publish for nothing and stores no publication; the
\* session is left in the state the client's task put it in, or a
\* publication is acknowledged, and nothing else changes.
C18_HandlerOnlyLogs ==
  [][EventStep =>
       /\ UNCHANGED << g_client, mainVars, calls >>
       /\ pending' \subseteq pending
       /\ session' # session => pending' = pending]_vars

C18_Witness ==
  /\ session = "Error"
  /\ pc = "pub_sala"
  /\ ParseOk(sscanf_ret)
  /\ Len(calls) = 1

\* C19: a call of publish_corriente made while g_client is NULL calls
\* esp_mqtt_client_publish for nothing and changes no variable of the
\* program (the main task goes on to its next statement); as long as the
\* handle is NULL a cycle has no publish call, no stored publication and no
\* msg_id; and the loop still reaches its delay and its next read.
C19_NullClientPublishesNothing ==
  /\ [][(PublishAttemptStep /\ g_client = "NULL") =>
         /\ UNCHANGED << g_client, session, pending, len, rx_buf, sscanf_ret,
                         I_rms, sala_val, garage_val, rand_next, now, calls,
                         msg_id, prev_cycle >>
         /\ << pc, pc' >> \in CycleOrder]_vars
  /\ [](g_client = "NULL" => (calls = << >> /\ pending = {} /\ msg_id = NoId))
  /\ []((g_client = "NULL" /\ pc \in LoopPcs) => <>(pc = "sleep"))
  /\ []((g_client = "NULL" /\ pc = "sleep") => <>(pc = "read"))

C19_Witness ==
  /\ g_client = "NULL"
  /\ pc = "sleep"
  /\ Fases = << "Cocina", "Sala", "Garage" >>
  /\ calls = << >>

\* C20: the result of the read is never more than UART_BUF_SIZE - 1 (and
\* never less than -1); sscanf is reached only with len > 0; whenever the
\* buffer is written, the terminator goes to index len with
\* 0 < len <= UART_BUF_SIZE - 1, right after the len bytes stored; and
\* rx_buf never holds more than UART_BUF_SIZE bytes.
C20_TerminatorInBounds ==
  /\ [](len >= 0 - 1 /\ len <= UART_BUF_SIZE - 1)
  /\ [](pc = "parse" => len > 0)
  /\ [](Len(rx_buf) <= UART_BUF_SIZE)
  /\ [][(rx_buf' # rx_buf) =>
         /\ 0 < len' /\ len' <= UART_BUF_SIZE - 1
         /\ Len(rx_buf') = len' + 1
         /\ CharAt(rx_buf', len' + 1) = NUL]_vars
  /\ [][(pc = "read" /\ len' <= 0) => (rx_buf' = rx_buf)]_vars

\* The read filled the buffer up to its last byte but one.
C20_Witness ==
  /\ pc = "parse"
  /\ len = UART_BUF_SIZE - 1
  /\ Len(rx_buf) = UART_BUF_SIZE

====
